---- MODULE Spec2Model ----
(***************************************************************************)
(* The JSON:API record store of src/src/pinia-json-api.ts                  *)
(* (definePiniaJsonApiStore): the model registry, the per-type identity    *)
(* map recordsByType, the normalizer (internalCreateRecord,                *)
(* resourcesToRecords) and the operations createRecord, findAll,           *)
(* findRecord, findRelated and unloadAll.  Records are objects on a heap   *)
(* and are named by their reference, so that "the same instance" is        *)
(* equality of references.  An asynchronous operation is two steps: the    *)
(* part up to its await (the call), and the part after the fetcher's       *)
(* promise has settled (the resumption); between the two any other         *)
(* operation may run.                                                      *)
(***************************************************************************)
EXTENDS Integers, Sequences, FiniteSets, TLC

VARIABLES
    recordsByType,  \* type name -> (id -> reference of the canonical record)
    heap,           \* reference -> record object, in allocation order
    calls,          \* the asynchronous calls suspended at their await
    fetches,        \* number of Document Fetcher calls issued so far
    invoked,        \* number of operations invoked so far
    unloaded,       \* the (type, id) keys the latest unloadAll removed
    last            \* what the latest step was and how it ended

vars == <<recordsByType, heap, calls, fetches, invoked, unloaded, last>>

(***************************************************************************)
(* Bounds of the model.                                                    *)
(***************************************************************************)
MaxInvoked == 3     \* operations invoked in one run
MaxCalls == 2       \* calls suspended at the same time

(***************************************************************************)
(* Values.                                                                 *)
(***************************************************************************)
Undefined == "undefined"            \* JavaScript undefined (an absent value)
NoRef == 0                          \* no record: references start at 1
Ids == {"1", "2"}                   \* ids callers and the server use
GenIds == {"2", "9"}                \* what generateId may return
AttrKeys == {"title", "body"}

(***************************************************************************)
(* The model definitions of the store's configuration: the models of       *)
(* src/unnamed/part_000.  "Tag" is a constructor that is not registered.   *)
(***************************************************************************)
Ctors == {"Article", "Person", "Comment", "Tag"}

modelDefinitions ==
    << [type |-> "article", ctor |-> "Article",
        hasMany |-> [comments |-> "Comment"], belongsTo |-> [author |-> "Person"]],
       [type |-> "person", ctor |-> "Person",
        hasMany |-> <<>>, belongsTo |-> <<>>],
       [type |-> "comment", ctor |-> "Comment",
        hasMany |-> <<>>, belongsTo |-> <<>>] >>

DefIndex == 1..Len(modelDefinitions)
Types == {modelDefinitions[i].type : i \in DefIndex}
RelNames == {"comments", "author"}

\* Map.get on the registries: Undefined when the key is absent.
modelRegistry(ctor) ==
    IF \E i \in DefIndex : modelDefinitions[i].ctor = ctor
    THEN modelDefinitions[CHOOSE i \in DefIndex : modelDefinitions[i].ctor = ctor].type
    ELSE Undefined

modelsByType(type) ==
    IF \E i \in DefIndex : modelDefinitions[i].type = type
    THEN modelDefinitions[CHOOSE i \in DefIndex : modelDefinitions[i].type = type].ctor
    ELSE Undefined

\* The relationship maps of a constructor: no names when it declares none.
hasManyRegistry(ctor) ==
    IF \E i \in DefIndex : modelDefinitions[i].ctor = ctor
    THEN modelDefinitions[CHOOSE i \in DefIndex : modelDefinitions[i].ctor = ctor].hasMany
    ELSE <<>>

belongsToRegistry(ctor) ==
    IF \E i \in DefIndex : modelDefinitions[i].ctor = ctor
    THEN modelDefinitions[CHOOSE i \in DefIndex : modelDefinitions[i].ctor = ctor].belongsTo
    ELSE <<>>

\* inflection's singularize, on the type names the documents carry.
singularize(word) ==
    CASE word = "articles" -> "article"
      [] word = "comments" -> "comment"
      [] word = "people" -> "person"
      [] OTHER -> word

(***************************************************************************)
(* Record objects.  A relationship field is undefined, one reference       *)
(* (belongsTo) or a sequence of references (hasMany).                      *)
(***************************************************************************)
NoRel == [kind |-> "undefined", refs |-> <<>>]
ToOne(ref) == IF ref = NoRef THEN NoRel ELSE [kind |-> "one", refs |-> <<ref>>]
ToMany(refs) == [kind |-> "many", refs |-> refs]

\* new ctor(id): class Model sets the id and nothing else.
Model(ctor, id) ==
    [ctor |-> ctor, id |-> id,
     attrs |-> [k \in AttrKeys |-> Undefined],
     rels |-> [n \in RelNames |-> NoRel]]

\* A property bag or an attributes object: the keys it mentions, each with a
\* value that may be Undefined; NoBag is a bag that is itself undefined.
NoBag == [defined |-> FALSE, id |-> Undefined, kv |-> <<>>]
Bag(id, kv) == [defined |-> TRUE, id |-> id, kv |-> kv]
Attributes(kv) == Bag(Undefined, kv)

(***************************************************************************)
(* Wire documents.  A resource has a type, an id, attributes and           *)
(* relationships: the names in the order Object.entries yields them, each  *)
(* with linkage data that is a sequence of identifiers, one identifier or  *)
(* null.  The code reads only the id of an identifier.  NullResource is a  *)
(* document whose data is null.                                            *)
(***************************************************************************)
Many(ids) == [kind |-> "many", ids |-> ids]
One(id) == [kind |-> "one", ids |-> <<id>>]
Null == [kind |-> "null", ids |-> <<>>]
Rel(name, data) == [name |-> name, data |-> data]

Resource(type, id, attributes, relationships) ==
    [type |-> type, id |-> id, attributes |-> attributes, relationships |-> relationships]
NullResource == Resource("null", Undefined, NoBag, <<>>)

NoIncluded == [defined |-> FALSE, items |-> <<>>]
Included(items) == [defined |-> TRUE, items |-> items]
Document(data, included) == [data |-> data, included |-> included]

(***************************************************************************)
(* The normalizer.  Its functions work on the pair (store, heap) and       *)
(* return it with err = "none", or throw: err names the error and the      *)
(* pair is as the throw left it.                                           *)
(***************************************************************************)
MapGet(map, key) == IF key \in DOMAIN map THEN map[key] ELSE NoRef
MapSet(map, key, ref) == [k \in DOMAIN map \cup {key} |-> IF k = key THEN ref ELSE map[k]]

Throw(st, err) == [err |-> err, store |-> st.store, heap |-> st.heap, ref |-> NoRef, refs |-> <<>>]

\* A merge that assigns every entry of the bag, the undefined ones too.
mergePropertiesClobber(record, properties) ==
    IF ~properties.defined THEN record
    ELSE [record EXCEPT
            !.id = IF properties.id # Undefined THEN properties.id ELSE @,
            !.attrs = [k \in AttrKeys |->
                         IF k \in DOMAIN properties.kv THEN properties.kv[k] ELSE @[k]]]

\* if (value !== undefined) record[key] = value, for every entry of the bag
mergeProperties(record, properties) ==
    IF ~properties.defined THEN record
    ELSE [record EXCEPT
            !.id = IF properties.id # Undefined THEN properties.id ELSE @,
            !.attrs = [k \in AttrKeys |->
                         IF k \in DOMAIN properties.kv /\ properties.kv[k] # Undefined
                         THEN properties.kv[k] ELSE @[k]]]

\* A creation that never looks for the record it is asked for.
internalCreateRecordFresh(st, ctor, id, properties) ==
    LET type == modelRegistry(ctor) IN
    IF type = Undefined \/ type \notin DOMAIN st.store THEN Throw(st, "unknown-model")
    ELSE
        LET ref == Len(st.heap) + 1
            heap1 == Append(st.heap, Model(ctor, id))
        IN  [err |-> "none",
             store |-> [st.store EXCEPT ![type] = MapSet(st.store[type], id, ref)],
             heap |-> [heap1 EXCEPT ![ref] = mergeProperties(heap1[ref], properties)],
             ref |-> ref, refs |-> <<>>]

internalCreateRecord(st, ctor, id, properties) ==
    LET type == modelRegistry(ctor) IN
    IF type = Undefined \/ type \notin DOMAIN st.store THEN Throw(st, "unknown-model")
    ELSE
        LET recordMap == st.store[type]
            found == MapGet(recordMap, id)
            ref == IF found # NoRef THEN found ELSE Len(st.heap) + 1
            heap1 == IF found # NoRef THEN st.heap ELSE Append(st.heap, Model(ctor, id))
        IN  [err |-> "none",
             store |-> [st.store EXCEPT ![type] = MapSet(recordMap, id, ref)],
             heap |-> [heap1 EXCEPT ![ref] = mergeProperties(heap1[ref], properties)],
             ref |-> ref, refs |-> <<>>]

\* jobs.map((r) => internalCreateRecord(r.ctor, r.id, r.attributes)), from job i on;
\* reading the id of a null resource is a TypeError.
RECURSIVE createEach(_, _, _)
createNext(r, refs, jobs, i) ==
    IF r.err # "none" THEN r
    ELSE createEach([r EXCEPT !.refs = Append(refs, r.ref)], jobs, i + 1)

createEach(st, jobs, i) ==
    IF i > Len(jobs) THEN st
    ELSE IF jobs[i].resource = NullResource THEN Throw(st, "type-error")
    ELSE createNext(internalCreateRecord(st, jobs[i].ctor, jobs[i].resource.id,
                                         jobs[i].resource.attributes),
                    st.refs, jobs, i)

\* getRecords throws when the type has no mapping: hasRecords is its test.
hasRecords(st, type) == type \in DOMAIN st.store
getRecords(st, type) == st.store[type]

\* A wiring that fills a hasMany field from the last identifier to the first.
wireRelationshipReversed(st, ctor, ref, rel) ==
    IF rel.name \in DOMAIN hasManyRegistry(ctor) THEN
        LET relType == modelRegistry(hasManyRegistry(ctor)[rel.name])
            relTypeRecords == getRecords(st, relType)
            n == Len(rel.data.ids)
        IN  IF ~hasRecords(st, relType) THEN Throw(st, "unknown-model")
            ELSE IF rel.data.kind # "many" THEN Throw(st, "type-error")
            ELSE IF \E k \in 1..n : rel.data.ids[k] \notin DOMAIN relTypeRecords
            THEN Throw(st, "record-not-found")
            ELSE [st EXCEPT !.heap[ref].rels[rel.name] =
                    ToMany([k \in 1..n |-> relTypeRecords[rel.data.ids[n + 1 - k]]])]
    ELSE IF rel.name \in DOMAIN belongsToRegistry(ctor) THEN
        LET relType == modelRegistry(belongsToRegistry(ctor)[rel.name])
            relTypeRecords == getRecords(st, relType)
        IN  IF ~hasRecords(st, relType) THEN Throw(st, "unknown-model")
            ELSE IF rel.data.kind = "null" THEN Throw(st, "type-error")
            ELSE [st EXCEPT !.heap[ref].rels[rel.name] =
                    ToOne(IF rel.data.kind = "one"
                          THEN MapGet(relTypeRecords, rel.data.ids[1]) ELSE NoRef)]
    ELSE st

\* One entry of a primary resource's relationships (lines 103-113): a hasMany
\* name maps getRecord over the identifiers, a belongsTo name does a plain
\* Map.get, any other name is skipped.
wireRelationship(st, ctor, ref, rel) ==
    IF rel.name \in DOMAIN hasManyRegistry(ctor) THEN
        LET relType == modelRegistry(hasManyRegistry(ctor)[rel.name])
            relTypeRecords == getRecords(st, relType)
        IN  IF ~hasRecords(st, relType) THEN Throw(st, "unknown-model")
            ELSE IF rel.data.kind # "many" THEN Throw(st, "type-error")
            ELSE IF \E k \in 1..Len(rel.data.ids) : rel.data.ids[k] \notin DOMAIN relTypeRecords
            THEN Throw(st, "record-not-found")
            ELSE [st EXCEPT !.heap[ref].rels[rel.name] =
                    ToMany([k \in 1..Len(rel.data.ids) |-> relTypeRecords[rel.data.ids[k]]])]
    ELSE IF rel.name \in DOMAIN belongsToRegistry(ctor) THEN
        LET relType == modelRegistry(belongsToRegistry(ctor)[rel.name])
            relTypeRecords == getRecords(st, relType)
        IN  IF ~hasRecords(st, relType) THEN Throw(st, "unknown-model")
            ELSE IF rel.data.kind = "null" THEN Throw(st, "type-error")
            ELSE [st EXCEPT !.heap[ref].rels[rel.name] =
                    ToOne(IF rel.data.kind = "one"
                          THEN MapGet(relTypeRecords, rel.data.ids[1]) ELSE NoRef)]
    ELSE st

\* for (const [name, rel] of Object.entries(r.relationships)), from entry j on
RECURSIVE wireEach(_, _, _, _, _)
wireNext(r, ctor, ref, relationships, j) ==
    IF r.err # "none" THEN r ELSE wireEach(r, ctor, ref, relationships, j + 1)

wireEach(st, ctor, ref, relationships, j) ==
    IF j > Len(relationships) THEN st
    ELSE wireNext(wireRelationship(st, ctor, ref, relationships[j]), ctor, ref, relationships, j)

\* resources.map((r) => { getRecord; wire its relationships; return record }),
\* from resource i on (lines 99-116)
RECURSIVE recordEach(_, _, _, _, _)
recordNext(r, refs, ref, ctor, resources, included, i) ==
    IF r.err # "none" THEN r
    ELSE recordEach([r EXCEPT !.refs = Append(refs, ref)], ctor, resources, included, i + 1)

getRecord(records, id) == MapGet(records, id)

recordEach(st, ctor, resources, included, i) ==
    IF i > Len(resources) THEN st
    ELSE IF getRecord(getRecords(st, modelRegistry(ctor)), resources[i].id) = NoRef
    THEN Throw(st, "record-not-found")
    ELSE recordNext(IF included.defined
                    THEN wireEach(st, ctor,
                                  getRecord(getRecords(st, modelRegistry(ctor)), resources[i].id),
                                  resources[i].relationships, 1)
                    ELSE st,
                    st.refs, getRecord(getRecords(st, modelRegistry(ctor)), resources[i].id),
                    ctor, resources, included, i)

\* The three passes of resourcesToRecords: the included resources under the
\* constructor of their own singularized type, the primary resources under
\* ctor, then the records of the primary resources with their relationships.
createIncluded(st, included) ==
    IF included.defined
    THEN createEach(st, [i \in 1..Len(included.items) |->
                           [ctor |-> modelsByType(singularize(included.items[i].type)),
                            resource |-> included.items[i]]], 1)
    ELSE st

createPrimary(st, ctor, resources) ==
    IF st.err # "none" THEN st
    ELSE createEach(st, [i \in 1..Len(resources) |-> [ctor |-> ctor, resource |-> resources[i]]], 1)

recordsOf(st, ctor, resources, included) ==
    IF st.err # "none" THEN st
    ELSE recordEach([st EXCEPT !.refs = <<>>], ctor, resources, included, 1)

\* A normalizer that merges the primary resources before the included ones.
resourcesToRecordsPrimaryFirst(st, ctor, resources, included) ==
    recordsOf(IF createPrimary(st, ctor, resources).err # "none"
              THEN createPrimary(st, ctor, resources)
              ELSE createIncluded(createPrimary(st, ctor, resources), included),
              ctor, resources, included)

resourcesToRecords(st, ctor, resources, included) ==
    recordsOf(createPrimary(createIncluded(st, included), ctor, resources),
              ctor, resources, included)

(***************************************************************************)
(* The Document Fetcher.  It is an interface the store is constructed      *)
(* with: what a call resolves to is the server's choice.  A response is a  *)
(* rejection or one of the documents below.  The documents for a single    *)
(* resource carry whatever id the server put there.                        *)
(***************************************************************************)
comment1 == Resource("comments", "1", Attributes([body |-> "v"]), <<>>)
comment2 == Resource("comments", "2", Attributes([body |-> "w"]), <<>>)
comment1b == Resource("comments", "1", Attributes([body |-> Undefined, title |-> "w"]), <<>>)
person1 == Resource("people", "1", Attributes([title |-> "v"]), <<>>)
person2 == Resource("people", "2", Attributes([title |-> "w"]), <<>>)
widget1 == Resource("widgets", "1", Attributes([title |-> "v"]), <<>>)

article(id, title, relationships) ==
    Resource("articles", id, Attributes([title |-> title]), relationships)

bothRels == <<Rel("author", One("1")), Rel("comments", Many(<<"1", "2">>))>>
reversedRels == <<Rel("comments", Many(<<"2", "1">>)), Rel("tags", Many(<<"1">>))>>

ArticleDocuments ==
    { Document(article("1", "v", bothRels), Included(<<person1, comment1, comment2>>)),
      Document(article("1", "w", reversedRels), Included(<<comment1b, comment2>>)),
      Document(article("2", "v", <<Rel("comments", Many(<<"1">>)), Rel("author", One("2"))>>),
               Included(<<comment1>>)),
      Document(article("1", Undefined, bothRels), NoIncluded),
      Document(article("1", "v", <<Rel("comments", Many(<<"1", "2">>))>>), Included(<<comment1>>)),
      Document(article("2", "w", <<>>), Included(<<comment2, widget1>>)),
      Document(article("1", "v", <<Rel("author", Null)>>), Included(<<>>)),
      Document(article("1", "v", <<>>), Included(<<article("1", "w", <<>>)>>)),
      Document(NullResource, Included(<<comment1>>)) }

PersonDocuments == {Document(person1, NoIncluded), Document(person2, NoIncluded)}
CommentDocuments ==
    {Document(comment1, NoIncluded), Document(comment2, NoIncluded),
     Document(comment1b, NoIncluded)}

ArticleCollections ==
    { Document(<<>>, NoIncluded),
      Document(<<article("1", "v", bothRels),
                 article("2", "w", <<Rel("comments", Many(<<"2">>))>>)>>,
               Included(<<person1, comment1, comment2>>)),
      Document(<<article("2", "v", <<>>), article("1", "w", bothRels)>>, NoIncluded),
      Document(<<article("1", "v", <<Rel("comments", Many(<<"1">>))>>),
                 article("2", "v", <<Rel("comments", Many(<<"2">>))>>)>>,
               Included(<<comment1>>)),
      Document(<<article("1", "v", <<>>)>>, Included(<<article("1", "w", <<>>)>>)) }

PersonCollections == {Document(<<person2, person1>>, NoIncluded)}
CommentCollections ==
    {Document(<<comment1, comment2>>, NoIncluded), Document(<<comment2>>, Included(<<>>))}

HasManyDocuments ==
    { Document(<<comment1, comment2>>, NoIncluded),
      Document(<<comment2, comment1b>>, NoIncluded),
      Document(<<>>, NoIncluded) }

BelongsToDocuments ==
    { Document(person1, NoIncluded), Document(person2, NoIncluded),
      Document(NullResource, NoIncluded) }

NoDocument == Document(<<>>, NoIncluded)
Rejected == [ok |-> FALSE, doc |-> NoDocument]
Resolved(doc) == [ok |-> TRUE, doc |-> doc]

\* fetchDocument(type, id), fetchDocument(type), fetchHasMany, fetchBelongsTo
fetchDocument(type, id) ==
    IF id = Undefined
    THEN CASE type = "article" -> ArticleCollections
           [] type = "person" -> PersonCollections
           [] OTHER -> CommentCollections
    ELSE CASE type = "article" -> ArticleDocuments
           [] type = "person" -> PersonDocuments
           [] OTHER -> CommentDocuments
fetchHasMany(type, id, name) == HasManyDocuments
fetchBelongsTo(type, id, name) == BelongsToDocuments

(***************************************************************************)
(* The state after definePiniaJsonApiStore: every registered type has an   *)
(* empty mapping.  The heap holds one object the store did not make: a     *)
(* caller's new Tag("1"), of a class that is not registered.               *)
(***************************************************************************)
NoArgs == [ctor |-> Undefined, id |-> Undefined, name |-> Undefined, ref |-> NoRef,
           properties |-> NoBag]
Step(op, step, args, result, err, records, response, doc) ==
    [op |-> op, step |-> step, args |-> args, result |-> result, err |-> err,
     records |-> records, response |-> response, doc |-> doc]

Init ==
    /\ recordsByType = [t \in Types |-> <<>>]
    /\ heap = <<Model("Tag", "1")>>
    /\ calls = <<>>
    /\ fetches = 0
    /\ invoked = 0
    /\ unloaded = {}
    /\ last = Step("none", "call", NoArgs, "returned", "none", <<>>, Rejected, NoDocument)

State == [err |-> "none", store |-> recordsByType, heap |-> heap, ref |-> NoRef, refs |-> <<>>]

Remove(seq, i) == [k \in 1..(Len(seq) - 1) |-> IF k < i THEN seq[k] ELSE seq[k + 1]]

Threw(op, step, args, err, response) ==
    Step(op, step, args, "threw", err, <<>>, response, NoDocument)

\* Math.random().toString(36).substr(2, 9)
generateId == GenIds

PropertyBags ==
    {Bag("1", [title |-> "v"]), Bag("1", [title |-> "w", body |-> Undefined]),
     Bag("2", [body |-> "w"]), Bag(Undefined, [title |-> "v"])}

\* What the fetcher's promise of a suspended call may settle to.
Responses(call) ==
    {Rejected} \cup
    {Resolved(d) : d \in
        CASE call.op = "findAll" -> fetchDocument(call.type, Undefined)
          [] call.op = "findRecord" -> fetchDocument(call.type, call.args.id)
          [] call.args.name \in DOMAIN hasManyRegistry(call.args.ctor) ->
                fetchHasMany(call.type, call.args.id, call.args.name)
          [] OTHER -> fetchBelongsTo(call.type, call.args.id, call.args.name)}

(***************************************************************************)
(* createRecord(ctor, properties)                                          *)
(***************************************************************************)
\* return internalCreateRecord(ctor, id, properties)
createRecordReturn(args, r) ==
    /\ recordsByType' = r.store
    /\ heap' = r.heap
    /\ last' = IF r.err # "none"
               THEN Threw("createRecord", "call", args, r.err, Rejected)
               ELSE Step("createRecord", "call", args, "returned", "none", <<r.ref>>,
                         Rejected, NoDocument)

createRecord(ctor, properties) ==
    /\ invoked < MaxInvoked
    /\ invoked' = invoked + 1
    /\ UNCHANGED <<calls, fetches, unloaded>>
    /\ IF modelRegistry(ctor) = Undefined
       THEN /\ last' = Threw("createRecord", "call",
                             [NoArgs EXCEPT !.ctor = ctor, !.properties = properties],
                             "unknown-model", Rejected)
            /\ UNCHANGED <<recordsByType, heap>>
       ELSE \E generated \in (IF properties.id # Undefined THEN {Undefined} ELSE generateId) :
              LET id == IF properties.id # Undefined THEN properties.id ELSE generated
              IN  createRecordReturn(
                      [NoArgs EXCEPT !.ctor = ctor, !.id = id, !.properties = properties],
                      internalCreateRecord(State, ctor, id, properties))

(***************************************************************************)
(* findAll(ctor): up to the await, and after it.                           *)
(***************************************************************************)
Suspend(op, args, type) ==
    /\ Len(calls) < MaxCalls
    /\ calls' = Append(calls, [op |-> op, args |-> args, type |-> type])
    /\ fetches' = fetches + 1
    /\ last' = Step(op, "call", args, "suspended", "none", <<>>, Rejected, NoDocument)
    /\ UNCHANGED <<recordsByType, heap, unloaded>>

\* A findAll that fetches before it looks its constructor up.
findAllUnchecked(ctor) ==
    /\ invoked < MaxInvoked
    /\ invoked' = invoked + 1
    /\ Suspend("findAll", [NoArgs EXCEPT !.ctor = ctor], modelRegistry(ctor))

findAll(ctor) ==
    /\ invoked < MaxInvoked
    /\ invoked' = invoked + 1
    /\ LET args == [NoArgs EXCEPT !.ctor = ctor] IN
       IF modelRegistry(ctor) = Undefined
       THEN /\ last' = Threw("findAll", "call", args, "unknown-model", Rejected)
            /\ UNCHANGED <<recordsByType, heap, calls, fetches, unloaded>>
       ELSE Suspend("findAll", args, modelRegistry(ctor))

\* A findAll that returns its records from the last primary resource to the first.
findAllReturnReversed(args, response, r) ==
    /\ recordsByType' = r.store
    /\ heap' = r.heap
    /\ last' = IF r.err # "none"
               THEN Threw("findAll", "resume", args, r.err, response)
               ELSE Step("findAll", "resume", args, "returned", "none",
                         [k \in 1..Len(r.refs) |-> r.refs[Len(r.refs) + 1 - k]], response,
                         response.doc)

\* return { doc, records }, or the error the normalizer threw
findAllReturn(args, response, r) ==
    /\ recordsByType' = r.store
    /\ heap' = r.heap
    /\ last' = IF r.err # "none"
               THEN Threw("findAll", "resume", args, r.err, response)
               ELSE Step("findAll", "resume", args, "returned", "none", r.refs, response,
                         response.doc)

findAllResume(i, response) ==
    /\ i \in 1..Len(calls)
    /\ calls[i].op = "findAll"
    /\ calls' = Remove(calls, i)
    /\ UNCHANGED <<fetches, invoked, unloaded>>
    /\ IF ~response.ok
       THEN /\ last' = Threw("findAll", "resume", calls[i].args, "transport", response)
            /\ UNCHANGED <<recordsByType, heap>>
       ELSE findAllReturn(calls[i].args, response,
                          resourcesToRecords(State, calls[i].args.ctor, response.doc.data,
                                             response.doc.included))

(***************************************************************************)
(* findRecord(ctor, id): the cache hit runs to its return without await.   *)
(***************************************************************************)
\* findRecord that never looks into the store before fetching.
findRecordUncached(ctor, id) ==
    /\ invoked < MaxInvoked
    /\ invoked' = invoked + 1
    /\ LET args == [NoArgs EXCEPT !.ctor = ctor, !.id = id]
           type == modelRegistry(ctor)
       IN  IF type = Undefined \/ type \notin DOMAIN recordsByType
           THEN /\ last' = Threw("findRecord", "call", args, "unknown-model", Rejected)
                /\ UNCHANGED <<recordsByType, heap, calls, fetches, unloaded>>
           ELSE Suspend("findRecord", args, type)

\* A findRecord that joins a fetch already in flight for the same (ctor, id).
findRecordJoining(ctor, id) ==
    /\ invoked < MaxInvoked
    /\ invoked' = invoked + 1
    /\ LET args == [NoArgs EXCEPT !.ctor = ctor, !.id = id]
           type == modelRegistry(ctor)
       IN  IF type = Undefined \/ type \notin DOMAIN recordsByType
           THEN /\ last' = Threw("findRecord", "call", args, "unknown-model", Rejected)
                /\ UNCHANGED <<recordsByType, heap, calls, fetches, unloaded>>
           ELSE IF id \in DOMAIN recordsByType[type]
           THEN /\ last' = Step("findRecord", "call", args, "returned", "none",
                                <<recordsByType[type][id]>>, Rejected, NoDocument)
                /\ UNCHANGED <<recordsByType, heap, calls, fetches, unloaded>>
           ELSE IF \E i \in 1..Len(calls) : calls[i].op = "findRecord" /\ calls[i].args = args
           THEN /\ last' = Step("findRecord", "call", args, "suspended", "none", <<>>,
                                Rejected, NoDocument)
                /\ UNCHANGED <<recordsByType, heap, calls, fetches, unloaded>>
           ELSE Suspend("findRecord", args, type)

findRecord(ctor, id) ==
    /\ invoked < MaxInvoked
    /\ invoked' = invoked + 1
    /\ LET args == [NoArgs EXCEPT !.ctor = ctor, !.id = id]
           type == modelRegistry(ctor)
       IN  IF type = Undefined \/ type \notin DOMAIN recordsByType
           THEN /\ last' = Threw("findRecord", "call", args, "unknown-model", Rejected)
                /\ UNCHANGED <<recordsByType, heap, calls, fetches, unloaded>>
           ELSE IF id \in DOMAIN recordsByType[type]
           THEN /\ last' = Step("findRecord", "call", args, "returned", "none",
                                <<recordsByType[type][id]>>, Rejected, NoDocument)
                /\ UNCHANGED <<recordsByType, heap, calls, fetches, unloaded>>
           ELSE Suspend("findRecord", args, type)

\* lines 138-143: recordsMap.set(id, records[0]), then return recordsMap.get(id)
findRecordReturn(args, type, response, r) ==
    IF r.err # "none"
    THEN /\ recordsByType' = r.store
         /\ heap' = r.heap
         /\ last' = Threw("findRecord", "resume", args, r.err, response)
    ELSE LET record == r.refs[1]
             recordsMap == MapSet(r.store[type], args.id, record)
         IN  /\ recordsByType' = [r.store EXCEPT ![type] = recordsMap]
             /\ heap' = r.heap
             /\ last' = Step("findRecord", "resume", args, "returned", "none",
                             <<recordsMap[args.id]>>, response, NoDocument)

findRecordResume(i, response) ==
    /\ i \in 1..Len(calls)
    /\ calls[i].op = "findRecord"
    /\ calls' = Remove(calls, i)
    /\ UNCHANGED <<fetches, invoked, unloaded>>
    /\ IF ~response.ok
       THEN /\ last' = Threw("findRecord", "resume", calls[i].args, "transport", response)
            /\ UNCHANGED <<recordsByType, heap>>
       ELSE findRecordReturn(calls[i].args, calls[i].type, response,
                             resourcesToRecords(State, calls[i].args.ctor,
                                                <<response.doc.data>>, response.doc.included))

(***************************************************************************)
(* findRelated(record, name): the record is any object the caller holds.   *)
(***************************************************************************)
\* A findRelated without its final throw: an undeclared name falls through
\* and the call returns undefined.
findRelatedSilent(record, name) ==
    /\ invoked < MaxInvoked
    /\ invoked' = invoked + 1
    /\ record \in 1..Len(heap)
    /\ LET ctor == heap[record].ctor
           type == modelRegistry(ctor)
           args == [NoArgs EXCEPT !.ctor = ctor, !.id = heap[record].id, !.name = name,
                                  !.ref = record]
       IN  IF type = Undefined
           THEN /\ last' = Threw("findRelated", "call", args, "unknown-model", Rejected)
                /\ UNCHANGED <<recordsByType, heap, calls, fetches, unloaded>>
           ELSE IF name \in DOMAIN hasManyRegistry(ctor) \/ name \in DOMAIN belongsToRegistry(ctor)
           THEN Suspend("findRelated", args, type)
           ELSE /\ last' = Step("findRelated", "call", args, "returned", "none", <<>>,
                                Rejected, NoDocument)
                /\ UNCHANGED <<recordsByType, heap, calls, fetches, unloaded>>

findRelated(record, name) ==
    /\ invoked < MaxInvoked
    /\ invoked' = invoked + 1
    /\ record \in 1..Len(heap)
    /\ LET ctor == heap[record].ctor
           type == modelRegistry(ctor)
           args == [NoArgs EXCEPT !.ctor = ctor, !.id = heap[record].id, !.name = name,
                                  !.ref = record]
       IN  IF type = Undefined
           THEN /\ last' = Threw("findRelated", "call", args, "unknown-model", Rejected)
                /\ UNCHANGED <<recordsByType, heap, calls, fetches, unloaded>>
           ELSE IF name \in DOMAIN hasManyRegistry(ctor) \/ name \in DOMAIN belongsToRegistry(ctor)
           THEN Suspend("findRelated", args, type)
           ELSE /\ last' = Threw("findRelated", "call", args, "no-such-relation", Rejected)
                /\ UNCHANGED <<recordsByType, heap, calls, fetches, unloaded>>

\* findRelated that assigns a sequence whatever the relationship is.
findRelatedReturnMany(args, many, response, r) ==
    IF r.err # "none"
    THEN /\ recordsByType' = r.store
         /\ heap' = r.heap
         /\ last' = Threw("findRelated", "resume", args, r.err, response)
    ELSE /\ recordsByType' = r.store
         /\ heap' = [r.heap EXCEPT ![args.ref].rels[args.name] = ToMany(r.refs)]
         /\ last' = Step("findRelated", "resume", args, "returned", "none", <<>>, response,
                         response.doc)

\* record[name] = relatedRecords (or relatedRecord); return doc
findRelatedReturn(args, many, response, r) ==
    IF r.err # "none"
    THEN /\ recordsByType' = r.store
         /\ heap' = r.heap
         /\ last' = Threw("findRelated", "resume", args, r.err, response)
    ELSE /\ recordsByType' = r.store
         /\ heap' = [r.heap EXCEPT ![args.ref].rels[args.name] =
                       IF many THEN ToMany(r.refs) ELSE ToOne(r.refs[1])]
         /\ last' = Step("findRelated", "resume", args, "returned", "none", <<>>, response,
                         response.doc)

\* A findRelated that empties the field when its fetch fails.
findRelatedResumeClearing(i, response) ==
    /\ i \in 1..Len(calls)
    /\ calls[i].op = "findRelated"
    /\ calls' = Remove(calls, i)
    /\ UNCHANGED <<fetches, invoked, unloaded>>
    /\ IF ~response.ok
       THEN /\ last' = Threw("findRelated", "resume", calls[i].args, "transport", response)
            /\ heap' = [heap EXCEPT ![calls[i].args.ref].rels[calls[i].args.name] = ToMany(<<>>)]
            /\ UNCHANGED recordsByType
       ELSE LET ctor == calls[i].args.ctor
                name == calls[i].args.name
                many == name \in DOMAIN hasManyRegistry(ctor)
                relCtor == IF many THEN hasManyRegistry(ctor)[name]
                           ELSE belongsToRegistry(ctor)[name]
                related == IF many THEN response.doc.data ELSE <<response.doc.data>>
            IN  findRelatedReturn(calls[i].args, many, response,
                                  createEach(State, [k \in 1..Len(related) |->
                                      [ctor |-> relCtor, resource |-> related[k]]], 1))

findRelatedResume(i, response) ==
    /\ i \in 1..Len(calls)
    /\ calls[i].op = "findRelated"
    /\ calls' = Remove(calls, i)
    /\ UNCHANGED <<fetches, invoked, unloaded>>
    /\ IF ~response.ok
       THEN /\ last' = Threw("findRelated", "resume", calls[i].args, "transport", response)
            /\ UNCHANGED <<recordsByType, heap>>
       ELSE LET ctor == calls[i].args.ctor
                name == calls[i].args.name
                many == name \in DOMAIN hasManyRegistry(ctor)
                relCtor == IF many THEN hasManyRegistry(ctor)[name]
                           ELSE belongsToRegistry(ctor)[name]
                related == IF many THEN response.doc.data ELSE <<response.doc.data>>
            IN  findRelatedReturn(calls[i].args, many, response,
                                  createEach(State, [k \in 1..Len(related) |->
                                      [ctor |-> relCtor, resource |-> related[k]]], 1))

(***************************************************************************)
(* unloadAll()                                                             *)
(***************************************************************************)
\* An unloadAll that clears the outer map: recordsByType.clear().
unloadAllTypes ==
    /\ invoked < MaxInvoked
    /\ invoked' = invoked + 1
    /\ recordsByType' = <<>>
    /\ unloaded' = {key \in (DOMAIN recordsByType) \X (Ids \cup GenIds) :
                        key[2] \in DOMAIN recordsByType[key[1]]}
    /\ last' = Step("unloadAll", "call", NoArgs, "returned", "none", <<>>, Rejected, NoDocument)
    /\ UNCHANGED <<heap, calls, fetches>>

unloadAll ==
    /\ invoked < MaxInvoked
    /\ invoked' = invoked + 1
    /\ recordsByType' = [t \in DOMAIN recordsByType |-> <<>>]
    /\ unloaded' = {key \in (DOMAIN recordsByType) \X (Ids \cup GenIds) :
                        key[2] \in DOMAIN recordsByType[key[1]]}
    /\ last' = Step("unloadAll", "call", NoArgs, "returned", "none", <<>>, Rejected, NoDocument)
    /\ UNCHANGED <<heap, calls, fetches>>

Next ==
    \/ \E ctor \in Ctors, properties \in PropertyBags : createRecord(ctor, properties)
    \/ \E ctor \in Ctors : findAll(ctor)
    \/ \E i \in 1..Len(calls) : \E response \in Responses(calls[i]) : findAllResume(i, response)
    \/ \E ctor \in Ctors, id \in Ids : findRecord(ctor, id)
    \/ \E i \in 1..Len(calls) : \E response \in Responses(calls[i]) : findRecordResume(i, response)
    \/ \E record \in 1..Len(heap), name \in RelNames \cup {"tags"} : findRelated(record, name)
    \/ \E i \in 1..Len(calls) : \E response \in Responses(calls[i]) : findRelatedResume(i, response)
    \/ unloadAll

Spec == Init /\ [][Next]_vars

(***************************************************************************)
(* Vocabulary of the properties.                                           *)
(***************************************************************************)
Registered(ctor) == modelRegistry(ctor) # Undefined
Declared(ctor, name) ==
    name \in DOMAIN hasManyRegistry(ctor) \/ name \in DOMAIN belongsToRegistry(ctor)
Stored(store, type, id) == type \in DOMAIN store /\ id \in DOMAIN store[type]
Called(op) == last.op = op /\ last.step = "call"
Resumed(op) == last.op = op /\ last.step = "resume"
Returned(op) == last.op = op /\ last.result = "returned"
DefinedIn(bag, key) == bag.defined /\ key \in DOMAIN bag.kv /\ bag.kv[key] # Undefined

\* The resources (for createRecord, the property bag) a step hands to
\* internalCreateRecord, in the order it does, each with the type it is stored under.
JobsOf(step) ==
    LET doc == step.response.doc
        own == modelRegistry(step.args.ctor)
        target == IF step.args.name \in DOMAIN hasManyRegistry(step.args.ctor)
                  THEN modelRegistry(hasManyRegistry(step.args.ctor)[step.args.name])
                  ELSE modelRegistry(belongsToRegistry(step.args.ctor)[step.args.name])
        typed(type, resources) ==
            [k \in 1..Len(resources) |-> [type |-> type, resource |-> resources[k]]]
        included == [k \in 1..Len(doc.included.items) |->
                        [type |-> singularize(doc.included.items[k].type),
                         resource |-> doc.included.items[k]]]
    IN  CASE step.op = "createRecord" ->
                <<[type |-> own,
                   resource |-> Resource(own, step.args.id, step.args.properties, <<>>)]>>
          [] step.op = "findAll" -> included \o typed(own, doc.data)
          [] step.op = "findRecord" -> included \o typed(own, <<doc.data>>)
          [] step.op = "findRelated" /\ step.args.name \in DOMAIN hasManyRegistry(step.args.ctor)
                -> typed(target, doc.data)
          [] OTHER -> typed(target, <<doc.data>>)

\* The record a step returned or assigned for (type, id) is `ref`.
Produced(step, heapAfter, type, id, ref) ==
    step.result = "returned" /\
    CASE step.op \in {"createRecord", "findRecord"} ->
            modelRegistry(step.args.ctor) = type /\ step.args.id = id /\ step.records = <<ref>>
      [] step.op = "findAll" ->
            modelRegistry(step.args.ctor) = type /\
            \E k \in 1..Len(step.records) :
                step.response.doc.data[k].id = id /\ step.records[k] = ref
      [] step.op = "findRelated" ->
            \E k \in 1..Len(JobsOf(step)) :
                /\ JobsOf(step)[k].type = type
                /\ JobsOf(step)[k].resource.id = id
                /\ heapAfter[step.args.ref].rels[step.args.name].refs[k] = ref
      [] OTHER -> FALSE

(***************************************************************************)
(* C1  Identity uniqueness.  As long as no unloadAll intervenes, the       *)
(* instance stored for a (type, id) stays the instance stored for it, and  *)
(* every record that createRecord, findRecord, findAll or findRelated      *)
(* returns or assigns for a (type, id) is the instance the store holds     *)
(* for it: no step puts a second instance in the place of the first.       *)
(***************************************************************************)
IdentityUniqueness ==
    [][ last'.op # "unloadAll" =>
          \A t \in Types :
            /\ \A id \in DOMAIN recordsByType[t] :
                  Stored(recordsByType', t, id) /\ recordsByType'[t][id] = recordsByType[t][id]
            /\ \A id \in DOMAIN recordsByType'[t], ref \in 1..Len(heap') :
                  Produced(last', heap', t, id, ref) => ref = recordsByType'[t][id] ]_vars

(***************************************************************************)
(* C2  Network policy.  A findRecord(ctor, id) called while a record for   *)
(* (type, id) is in the store issues no fetch, suspends nothing and        *)
(* returns the stored instance.  A findAll, and a findRelated, that is     *)
(* not rejected for its arguments issues exactly one fetch, at its call    *)
(* and whatever the store holds; no resumption issues another.             *)
(***************************************************************************)
NetworkPolicy ==
    [][ LET args == last'.args
            type == modelRegistry(args.ctor)
        IN  /\ (last'.op = "findRecord" /\ last'.step = "call" /\ Registered(args.ctor)
                  /\ Stored(recordsByType, type, args.id))
               => /\ fetches' = fetches
                  /\ calls' = calls
                  /\ last'.result = "returned"
                  /\ last'.records = <<recordsByType[type][args.id]>>
            /\ (last'.op = "findAll" /\ last'.step = "call" /\ Registered(args.ctor))
               => fetches' = fetches + 1 /\ Len(calls') = Len(calls) + 1
            /\ (last'.op = "findRelated" /\ last'.step = "call" /\ Registered(args.ctor)
                  /\ Declared(args.ctor, args.name))
               => fetches' = fetches + 1 /\ Len(calls') = Len(calls) + 1
            /\ last'.step = "resume" => fetches' = fetches ]_vars

\* A findRecord served from the store after an earlier call had fetched.
NetworkPolicyWitness ==
    /\ Called("findRecord")
    /\ last.result = "returned"
    /\ fetches > 0
    /\ Stored(recordsByType, modelRegistry(last.args.ctor), last.args.id)

\* A step that normalizes: a createRecord of a registered constructor, or the
\* resumption of a call whose fetch succeeded.
Normalizing(step) ==
    \/ step.op = "createRecord" /\ Registered(step.args.ctor)
    \/ step.step = "resume" /\ step.response.ok

\* The jobs that are merged: those before the first one internalCreateRecord
\* cannot take (a null resource, a type with no model).
Merged(jobs) ==
    LET bad == {k \in 1..Len(jobs) : jobs[k].resource = NullResource \/ jobs[k].type \notin Types}
    IN  IF bad = {} THEN jobs
        ELSE SubSeq(jobs, 1, (CHOOSE k \in bad : \A m \in bad : k <= m) - 1)

\* The job is merged into the record `ref`: the one stored for the job's
\* (type, id) before the step or, when none was, the one the step made for it.
MergesInto(job, ref) ==
    IF ref <= Len(heap)
    THEN Stored(recordsByType, job.type, job.resource.id)
         /\ recordsByType[job.type][job.resource.id] = ref
    ELSE ~Stored(recordsByType, job.type, job.resource.id)
         /\ modelRegistry(heap'[ref].ctor) = job.type
         /\ heap'[ref].id = job.resource.id

\* Every attribute of every record is the value the last of the jobs that
\* define it for that record gives it, and its value before when no job does.
MergedInto(jobs, heapBefore, heapAfter) ==
    \A ref \in 1..Len(heapAfter), key \in AttrKeys :
        \A hits \in {{k \in 1..Len(jobs) :
                        MergesInto(jobs[k], ref)
                        /\ DefinedIn(jobs[k].resource.attributes, key)}} :
            heapAfter[ref].attrs[key] =
                IF hits # {}
                THEN jobs[CHOOSE k \in hits : \A m \in hits : m <= k].resource.attributes.kv[key]
                ELSE IF ref <= Len(heapBefore) THEN heapBefore[ref].attrs[key]
                ELSE Undefined

(***************************************************************************)
(* C3  Merge, not clobber.  In every step that normalizes, each attribute  *)
(* of each record ends with the last defined value the step's resources    *)
(* (or property bag) for that record give it; an attribute that comes      *)
(* only as undefined, or is not mentioned, or belongs to a record the      *)
(* step does not normalize, keeps the value it had.                        *)
(***************************************************************************)
MergeNotClobber ==
    [][ Normalizing(last') =>
          \A jobs \in {Merged(JobsOf(last'))} : MergedInto(jobs, heap, heap') ]_vars

\* A property bag with an explicit undefined body and a defined title was
\* merged into a record that had a body: the body is kept, the title is set.
MergeNotClobberWitness ==
    /\ Returned("createRecord")
    /\ "body" \in DOMAIN last.args.properties.kv
    /\ last.args.properties.kv["body"] = Undefined
    /\ heap[last.records[1]].attrs["body"] # Undefined
    /\ heap[last.records[1]].attrs["title"] = last.args.properties.kv["title"]

(***************************************************************************)
(* C4  Unload clears all types.  Right after unloadAll every type is       *)
(* still registered in recordsByType and the mapping of every type is      *)
(* empty; a findRecord of a registered constructor called next, for an id  *)
(* the unloadAll removed, suspends at a fetch it has just issued.          *)
(***************************************************************************)
UnloadClearsAll ==
    [][ /\ last'.op = "unloadAll" =>
              /\ DOMAIN recordsByType' = Types
              /\ \A t \in Types : DOMAIN recordsByType'[t] = {}
        /\ (last.op = "unloadAll" /\ last'.op = "findRecord" /\ last'.step = "call"
              /\ <<modelRegistry(last'.args.ctor), last'.args.id>> \in unloaded)
           => /\ last'.result = "suspended"
              /\ fetches' = fetches + 1
              /\ Len(calls') = Len(calls) + 1 ]_vars

\* A findRecord suspended at its fetch, for an id the latest unloadAll removed,
\* with nothing stored since.
UnloadClearsAllWitness ==
    /\ Called("findRecord")
    /\ last.result = "suspended"
    /\ <<modelRegistry(last.args.ctor), last.args.id>> \in unloaded
    /\ \A t \in Types : DOMAIN recordsByType[t] = {}

\* The defined attributes of resource k are on its record, unless a later
\* resource of the sequence is merged into the same record and defines the
\* attribute again.
AttributesMerged(refs, resources, k) ==
    \A key \in AttrKeys :
        (/\ DefinedIn(resources[k].attributes, key)
         /\ ~\E m \in (k + 1)..Len(resources) :
                refs[m] = refs[k] /\ DefinedIn(resources[m].attributes, key))
        => heap[refs[k]].attrs[key] = resources[k].attributes.kv[key]

\* The references are the canonical records of the resources, in their order.
CanonicalRecords(refs, resources, type) ==
    /\ Len(refs) = Len(resources)
    /\ \A k \in 1..Len(resources) :
          /\ Stored(recordsByType, type, resources[k].id)
          /\ refs[k] = recordsByType[type][resources[k].id]
          /\ AttributesMerged(refs, resources, k)

(***************************************************************************)
(* C5  After a findRelated(record, name) that returned: for a hasMany      *)
(* name, record[name] is the sequence of the canonical records of the      *)
(* response's resources, as many and in the same order, each stored in     *)
(* the target type's mapping with the response's attributes merged; for a  *)
(* belongsTo name it is the one canonical record of the response's         *)
(* resource; the call returned the response document.                      *)
(***************************************************************************)
FindRelatedAssigns ==
    (Resumed("findRelated") /\ last.result = "returned") =>
        LET ctor == last.args.ctor
            name == last.args.name
            data == last.response.doc.data
            field == heap[last.args.ref].rels[name]
        IN  /\ last.doc = last.response.doc
            /\ IF name \in DOMAIN hasManyRegistry(ctor)
               THEN /\ field.kind = "many"
                    /\ CanonicalRecords(field.refs, data,
                                        modelRegistry(hasManyRegistry(ctor)[name]))
               ELSE /\ field.kind = "one"
                    /\ CanonicalRecords(field.refs, <<data>>,
                                        modelRegistry(belongsToRegistry(ctor)[name]))

\* findRelated(article, "comments") assigned the two comments of the response.
FindRelatedAssignsWitness ==
    /\ Resumed("findRelated")
    /\ last.result = "returned"
    /\ last.args.name = "comments"
    /\ Len(heap[last.args.ref].rels["comments"].refs) = 2
    /\ heap[heap[last.args.ref].rels["comments"].refs[1]].id
         # heap[heap[last.args.ref].rels["comments"].refs[2]].id

\* Every identifier of the linkage names a resource of the document's included
\* list, of the relationship's target type.
AllIncluded(ids, type, included) ==
    /\ included.defined
    /\ \A m \in 1..Len(ids) :
          \E n \in 1..Len(included.items) :
              singularize(included.items[n].type) = type /\ included.items[n].id = ids[m]

\* Entry `rel` of primary resource k is what the field of its record now
\* says; a later primary resource that is the same record and carries the
\* same name has the last word.
Wired(ctor, records, resources, k, rel, included) ==
    LET field == heap[records[k]].rels[rel.name]
        many == rel.name \in DOMAIN hasManyRegistry(ctor)
        type == IF many THEN modelRegistry(hasManyRegistry(ctor)[rel.name])
                ELSE modelRegistry(belongsToRegistry(ctor)[rel.name])
        overwritten == \E m \in (k + 1)..Len(resources) :
                          /\ records[m] = records[k]
                          /\ \E j \in 1..Len(resources[m].relationships) :
                                resources[m].relationships[j].name = rel.name
    IN  (/\ Declared(ctor, rel.name)
         /\ rel.data.kind = (IF many THEN "many" ELSE "one")
         /\ AllIncluded(rel.data.ids, type, included)
         /\ ~overwritten)
        => /\ field.kind = rel.data.kind
           /\ Len(field.refs) = Len(rel.data.ids)
           /\ \A m \in 1..Len(rel.data.ids) :
                 /\ Stored(recordsByType, type, rel.data.ids[m])
                 /\ field.refs[m] = recordsByType[type][rel.data.ids[m]]

(***************************************************************************)
(* C6  Relationship resolution.  After a findAll or findRecord that        *)
(* returned: for every primary resource of the response and every          *)
(* relationship it carries under a declared name whose linked resources    *)
(* are all in the document's included list, the field of the resource's    *)
(* record is, for hasMany, the sequence of the instances stored for the    *)
(* linkage identifiers, one per identifier and in linkage order, and for   *)
(* belongsTo the one instance stored for its identifier.                   *)
(***************************************************************************)
RelationshipsResolved ==
    ((Resumed("findAll") \/ Resumed("findRecord")) /\ last.result = "returned") =>
        LET resources == IF last.op = "findAll" THEN last.response.doc.data
                         ELSE <<last.response.doc.data>>
        IN  /\ Len(last.records) = Len(resources)
            /\ \A k \in 1..Len(resources) :
                  \A j \in 1..Len(resources[k].relationships) :
                      Wired(last.args.ctor, last.records, resources, k,
                            resources[k].relationships[j], last.response.doc.included)

\* A response wired an article to its two included comments and to its
\* included author.
RelationshipsResolvedWitness ==
    /\ (Resumed("findAll") \/ Resumed("findRecord"))
    /\ last.result = "returned"
    /\ last.response.doc.included.defined
    /\ \E k \in 1..Len(last.records) :
          /\ heap[last.records[k]].rels["comments"].kind = "many"
          /\ Len(heap[last.records[k]].rels["comments"].refs) = 2
          /\ heap[last.records[k]].rels["comments"].refs[1]
               # heap[last.records[k]].rels["comments"].refs[2]
          /\ heap[last.records[k]].rels["author"].kind = "one"

(***************************************************************************)
(* C7  Transport failure.  Whenever the fetch of a findAll, a findRecord   *)
(* or a findRelated is rejected, the call throws that rejection; the step  *)
(* changes no mapping of the store and no record, issues no further fetch  *)
(* and leaves no call of its own pending.                                  *)
(***************************************************************************)
TransportFailure ==
    [][ (last'.step = "resume" /\ ~last'.response.ok) =>
            /\ last'.op \in {"findAll", "findRecord", "findRelated"}
            /\ last'.result = "threw"
            /\ last'.err = "transport"
            /\ recordsByType' = recordsByType
            /\ heap' = heap
            /\ fetches' = fetches
            /\ Len(calls') = Len(calls) - 1 ]_vars

\* The fetch of a findRelated was rejected while the store held records and
\* the record's field had been assigned before.
TransportFailureWitness ==
    /\ Resumed("findRelated")
    /\ ~last.response.ok
    /\ last.err = "transport"
    /\ heap[last.args.ref].rels[last.args.name] # NoRel
    /\ \E t \in Types : DOMAIN recordsByType[t] # {}

(***************************************************************************)
(* C8  Unknown model.  Whenever createRecord, findAll or findRecord is     *)
(* called with a constructor that is not registered, or findRelated with   *)
(* a record of such a constructor, the call throws the unknown-model       *)
(* error, no fetch is issued, no call is left pending, and the store and   *)
(* the records are unchanged.                                              *)
(***************************************************************************)
UnknownModel ==
    [][ (/\ last'.step = "call"
         /\ last'.op \in {"createRecord", "findAll", "findRecord", "findRelated"}
         /\ ~Registered(last'.args.ctor)) =>
            /\ last'.result = "threw"
            /\ last'.err = "unknown-model"
            /\ fetches' = fetches
            /\ calls' = calls
            /\ recordsByType' = recordsByType
            /\ heap' = heap ]_vars

\* findRelated was called on the caller's Tag object while the store held
\* records.
UnknownModelWitness ==
    /\ Called("findRelated")
    /\ ~Registered(last.args.ctor)
    /\ last.err = "unknown-model"
    /\ \E t \in Types : DOMAIN recordsByType[t] # {}

(***************************************************************************)
(* C9  No such relationship.  Whenever findRelated is called on a record   *)
(* of a registered type with a name that the type declares neither as      *)
(* hasMany nor as belongsTo, the call throws the no-such-relation error,   *)
(* no fetch is issued, and the records and the store are unchanged.        *)
(***************************************************************************)
NoSuchRelationship ==
    [][ (/\ last'.op = "findRelated"
         /\ last'.step = "call"
         /\ Registered(last'.args.ctor)
         /\ ~Declared(last'.args.ctor, last'.args.name)) =>
            /\ last'.result = "threw"
            /\ last'.err = "no-such-relation"
            /\ fetches' = fetches
            /\ calls' = calls
            /\ recordsByType' = recordsByType
            /\ heap' = heap ]_vars

\* findRelated was called on a stored person with a name that only the
\* article type declares.
NoSuchRelationshipWitness ==
    /\ Called("findRelated")
    /\ last.args.ctor = "Person"
    /\ last.args.name = "author"
    /\ last.err = "no-such-relation"
    /\ Stored(recordsByType, "person", last.args.id)

\* The heap after the step is the heap before it, but for the properties of
\* record ref, which took the defined entries of the bag (its id is one).
MergedInPlace(ref, bag) ==
    /\ DOMAIN heap' = DOMAIN heap
    /\ \A r \in DOMAIN heap :
          IF r # ref THEN heap'[r] = heap[r]
          ELSE /\ heap'[r].ctor = heap[r].ctor
               /\ heap'[r].id = (IF bag.id # Undefined THEN bag.id ELSE heap[r].id)
               /\ heap'[r].rels = heap[r].rels
               /\ \A k \in AttrKeys :
                     heap'[r].attrs[k] =
                        IF DefinedIn(bag, k) THEN bag.kv[k] ELSE heap[r].attrs[k]

\* The store after the step is the store before it with one more key, id of
\* type, that maps to a record the step allocated.
InsertedOne(type, id) ==
    /\ DOMAIN recordsByType' = DOMAIN recordsByType
    /\ \A t \in DOMAIN recordsByType :
          /\ DOMAIN recordsByType'[t] =
                DOMAIN recordsByType[t] \cup (IF t = type THEN {id} ELSE {})
          /\ \A i \in DOMAIN recordsByType[t] : recordsByType'[t][i] = recordsByType[t][i]
    /\ Len(heap') = Len(heap) + 1
    /\ recordsByType'[type][id] = Len(heap')
    /\ heap'[Len(heap')].ctor = modelsByType(type)
    /\ heap'[Len(heap')].id = id
    /\ \A r \in DOMAIN heap : heap'[r] = heap[r]

(***************************************************************************)
(* C10  createRecord is local and merges in place.  A createRecord step    *)
(* issues no fetch and leaves no call pending.  Called with a registered   *)
(* constructor and an id, it returns; if the id was a key of the type's    *)
(* mapping, the store is unchanged, no record is allocated, the instance   *)
(* stored under the id took the defined properties and is what is          *)
(* returned; if the id was not a key, exactly that key is added, it maps   *)
(* to one newly allocated record, and that record is what is returned.     *)
(***************************************************************************)
CreateRecordLocal ==
    [][ last'.op = "createRecord" =>
            /\ fetches' = fetches
            /\ calls' = calls
            /\ (Registered(last'.args.ctor) /\ last'.args.properties.id # Undefined) =>
                  LET type == modelRegistry(last'.args.ctor)
                      id == last'.args.properties.id
                  IN  /\ last'.result = "returned"
                      /\ last'.records = <<recordsByType'[type][id]>>
                      /\ IF Stored(recordsByType, type, id)
                         THEN /\ recordsByType' = recordsByType
                              /\ MergedInPlace(recordsByType[type][id], last'.args.properties)
                         ELSE InsertedOne(type, id) ]_vars

\* createRecord was called with the id of a stored record whose title was
\* another one, and returned that record with the title of the call.
CreateRecordLocalWitness ==
    /\ Called("createRecord")
    /\ last.result = "returned"
    /\ last.args.properties = Bag("1", [title |-> "w", body |-> Undefined])
    /\ last.records[1] < Len(heap)
    /\ heap[last.records[1]].attrs["title"] = "w"
    /\ heap[last.records[1]].attrs["body"] = "w"

\* The field that entry `rel` of primary resource k names holds, in heap h,
\* the instances that `store` keeps for the linkage identifiers, in linkage
\* order; null linkage and undeclared names say nothing, and a later primary
\* resource that is the same record and carries the same name has the last word.
LinkageWired(h, store, ctor, records, resources, k, rel) ==
    LET field == h[records[k]].rels[rel.name]
        many == rel.name \in DOMAIN hasManyRegistry(ctor)
        type == IF many THEN modelRegistry(hasManyRegistry(ctor)[rel.name])
                ELSE modelRegistry(belongsToRegistry(ctor)[rel.name])
        overwritten == \E m \in (k + 1)..Len(resources) :
                          /\ records[m] = records[k]
                          /\ \E j \in 1..Len(resources[m].relationships) :
                                resources[m].relationships[j].name = rel.name
    IN  (/\ Declared(ctor, rel.name)
         /\ rel.data.kind = (IF many THEN "many" ELSE "one")
         /\ ~overwritten)
        => /\ field.kind = rel.data.kind
           /\ Len(field.refs) = Len(rel.data.ids)
           /\ \A m \in 1..Len(rel.data.ids) :
                 /\ Stored(store, type, rel.data.ids[m])
                 /\ field.refs[m] = store[type][rel.data.ids[m]]

\* The primary resources of the document a findAll or findRecord step received.
PrimaryOf(step) ==
    IF step.op = "findAll" THEN step.response.doc.data ELSE <<step.response.doc.data>>

\* Every linkage of every primary resource of the step's document is wired in
\* heap h against `store`.
AllLinkageWired(step, h, store) ==
    /\ Len(step.records) = Len(PrimaryOf(step))
    /\ \A k \in 1..Len(PrimaryOf(step)) :
          \A j \in 1..Len(PrimaryOf(step)[k].relationships) :
              LinkageWired(h, store, step.args.ctor, step.records, PrimaryOf(step),
                           k, PrimaryOf(step)[k].relationships[j])

(***************************************************************************)
(* C11  No partially-normalized document.  A step that processes a         *)
(* document that has arrived either throws and leaves the store and every  *)
(* record as they were, or returns with the document entirely reflected:   *)
(* for a findAll or findRecord, every linkage of its primary resources     *)
(* under a declared name is wired.                                         *)
(***************************************************************************)
NoPartialDocument ==
    [][ (last'.step = "resume" /\ last'.response.ok) =>
            /\ last'.result = "threw" => (recordsByType' = recordsByType /\ heap' = heap)
            /\ (last'.result = "returned" /\ last'.op \in {"findAll", "findRecord"}) =>
                  \A step \in {last'} : AllLinkageWired(step, heap', recordsByType') ]_vars

\* Some primary resource of the step's document carries, under a name its
\* type declares belongsTo, the identifier of a record that is neither in
\* `store` nor among the resources of the document.
UnresolvableBelongsTo(step, store) ==
    LET ctor == step.args.ctor
        doc == step.response.doc
    IN  \E k \in 1..Len(PrimaryOf(step)) :
          \E j \in 1..Len(PrimaryOf(step)[k].relationships) :
            LET rel == PrimaryOf(step)[k].relationships[j]
                type == modelRegistry(belongsToRegistry(ctor)[rel.name])
            IN  /\ rel.name \in DOMAIN belongsToRegistry(ctor)
                /\ rel.data.kind = "one"
                /\ ~Stored(store, type, rel.data.ids[1])
                /\ ~\E n \in 1..Len(doc.included.items) :
                       /\ singularize(doc.included.items[n].type) = type
                       /\ doc.included.items[n].id = rel.data.ids[1]
                /\ ~(type = modelRegistry(ctor) /\
                     \E m \in 1..Len(PrimaryOf(step)) : PrimaryOf(step)[m].id = rel.data.ids[1])

(***************************************************************************)
(* C12  Unresolvable belongsTo linkage.  A findAll or findRecord whose     *)
(* document has an included member and a primary resource with a           *)
(* belongsTo linkage to a record that is neither in the document nor in    *)
(* the store throws: it does not return with the field left undefined.     *)
(***************************************************************************)
BelongsToResolvedOrThrown ==
    [][ (/\ last'.step = "resume"
         /\ last'.response.ok
         /\ last'.op \in {"findAll", "findRecord"}
         /\ last'.response.doc.included.defined
         /\ \E step \in {last'} : UnresolvableBelongsTo(step, recordsByType)) =>
            last'.result = "threw" ]_vars

\* Every identifier that a primary resource of the step's document links
\* under a declared name is a key of the target type's mapping in `store`,
\* and there is such a linkage.
AllTargetsCached(step, store) ==
    LET ctor == step.args.ctor
        linked(rel) == /\ Declared(ctor, rel.name)
                       /\ rel.data.kind = (IF rel.name \in DOMAIN hasManyRegistry(ctor)
                                           THEN "many" ELSE "one")
        target(rel) == IF rel.name \in DOMAIN hasManyRegistry(ctor)
                       THEN modelRegistry(hasManyRegistry(ctor)[rel.name])
                       ELSE modelRegistry(belongsToRegistry(ctor)[rel.name])
    IN  /\ step.response.doc.data # NullResource
        /\ \E k \in 1..Len(PrimaryOf(step)) :
              \E j \in 1..Len(PrimaryOf(step)[k].relationships) :
                  linked(PrimaryOf(step)[k].relationships[j])
        /\ \A k \in 1..Len(PrimaryOf(step)) :
              \A j \in 1..Len(PrimaryOf(step)[k].relationships) :
                  LET rel == PrimaryOf(step)[k].relationships[j]
                  IN  /\ Declared(ctor, rel.name) => linked(rel)
                      /\ linked(rel) =>
                            \A m \in 1..Len(rel.data.ids) :
                                Stored(store, target(rel), rel.data.ids[m])

(***************************************************************************)
(* C13  Linkage without included.  A findAll or findRecord whose document  *)
(* has no included member, while every record its primary resources link   *)
(* under a declared name is already in the store, returns with each such   *)
(* field assigned to the stored records of its linkage.                    *)
(***************************************************************************)
CachedLinkageWired ==
    [][ (/\ last'.step = "resume"
         /\ last'.response.ok
         /\ last'.op \in {"findAll", "findRecord"}
         /\ ~last'.response.doc.included.defined
         /\ \E step \in {last'} : AllTargetsCached(step, recordsByType)) =>
            /\ last'.result = "returned"
            /\ \A step \in {last'} : AllLinkageWired(step, heap', recordsByType') ]_vars

\* The findRecord calls for (ctor, id) that are suspended at their fetch.
InFlight(pending, ctor, id) ==
    {i \in 1..Len(pending) : /\ pending[i].op = "findRecord"
                             /\ pending[i].args.ctor = ctor
                             /\ pending[i].args.id = id}

(***************************************************************************)
(* C14  No in-flight de-duplication.  A findRecord called for a (type, id) *)
(* that is not in the store while another findRecord for the same          *)
(* (type, id) is suspended at its fetch issues a fetch of its own and is   *)
(* suspended beside the other.  Whichever of the two is resumed first, the *)
(* other stays suspended at its own fetch and no fetch is taken back.      *)
(***************************************************************************)
NoInFlightDedup ==
    [][ LET args == last'.args IN
        /\ (/\ last'.op = "findRecord"
            /\ last'.step = "call"
            /\ Registered(args.ctor)
            /\ ~Stored(recordsByType, modelRegistry(args.ctor), args.id)
            /\ InFlight(calls, args.ctor, args.id) # {}) =>
               /\ last'.result = "suspended"
               /\ fetches' = fetches + 1
               /\ Cardinality(InFlight(calls', args.ctor, args.id))
                    = Cardinality(InFlight(calls, args.ctor, args.id)) + 1
        /\ (/\ last'.op = "findRecord"
            /\ last'.step = "resume"
            /\ Cardinality(InFlight(calls, args.ctor, args.id)) > 1) =>
               /\ fetches' = fetches
               /\ Cardinality(InFlight(calls', args.ctor, args.id))
                    = Cardinality(InFlight(calls, args.ctor, args.id)) - 1 ]_vars

\* Two findRecord calls for one absent (type, id) issued two fetches; one of
\* them has returned and the other is still suspended.
NoInFlightDedupWitness ==
    /\ Resumed("findRecord")
    /\ last.result = "returned"
    /\ fetches = 2
    /\ InFlight(calls, last.args.ctor, last.args.id) # {}

(***************************************************************************)
(* C15  Per-record lifecycle.  No step other than unloadAll removes a key  *)
(* from the mapping of a type or puts another instance under a key that    *)
(* is present: whatever createRecord, findRecord, findAll or findRelated   *)
(* does, called or resumed, returning or throwing, every key stays and     *)
(* keeps its instance.                                                     *)
(***************************************************************************)
KeysOnlyGrow ==
    [][ last'.op # "unloadAll" =>
          \A t \in DOMAIN recordsByType :
              /\ t \in DOMAIN recordsByType'
              /\ \A id \in DOMAIN recordsByType[t] :
                    /\ id \in DOMAIN recordsByType'[t]
                    /\ recordsByType'[t][id] = recordsByType[t][id] ]_vars

(***************************************************************************)
(* C16  Key/identity agreement.  In every state, the record stored under   *)
(* key k of the mapping of any type has id k.                              *)
(***************************************************************************)
KeyIdentityAgreement ==
    \A t \in DOMAIN recordsByType :
        \A k \in DOMAIN recordsByType[t] : heap[recordsByType[t][k]].id = k

\* The type of the records that field `name` of a record of ctor refers to.
TargetType(ctor, name) ==
    IF name \in DOMAIN hasManyRegistry(ctor)
    THEN modelRegistry(hasManyRegistry(ctor)[name])
    ELSE modelRegistry(belongsToRegistry(ctor)[name])

(***************************************************************************)
(* C17  Referential integrity.  In every state, every reference held in a  *)
(* declared relationship field of a record that is in the store is the     *)
(* instance that the mapping of the field's target type holds under the    *)
(* id of the referenced record.                                            *)
(***************************************************************************)
ReferentialIntegrity ==
    \A t \in DOMAIN recordsByType :
        \A k \in DOMAIN recordsByType[t] :
            LET record == heap[recordsByType[t][k]] IN
            \A name \in RelNames :
                Declared(record.ctor, name) =>
                    \A m \in 1..Len(record.rels[name].refs) :
                        LET ref == record.rels[name].refs[m]
                            target == TargetType(record.ctor, name)
                        IN  /\ Stored(recordsByType, target, heap[ref].id)
                            /\ recordsByType[target][heap[ref].id] = ref

(***************************************************************************)
(* C18  Unload versus in-flight fetches.  The calls that are suspended     *)
(* when unloadAll returns issued their fetches before it.  When the next   *)
(* step is the resumption of one of them, whatever its response, the       *)
(* mapping of every type is still empty after it.                          *)
(***************************************************************************)
UnloadedStaysEmpty ==
    [][ (last.op = "unloadAll" /\ last'.step = "resume") =>
            \A t \in DOMAIN recordsByType' : DOMAIN recordsByType'[t] = {} ]_vars

\* Included item n of the document is, once merged, the record `ref`: every
\* attribute it defines is what `ref` holds, unless a later included item
\* that is the same record, or a primary resource that is, defines it too.
IncludedMerged(doc, own, primary, records, n, ref) ==
    LET item == doc.included.items[n]
        same(r, t) == /\ Stored(recordsByType, t, r.id)
                      /\ recordsByType[t][r.id] = ref
    IN  \A key \in AttrKeys :
            (/\ DefinedIn(item.attributes, key)
             /\ ~\E m \in (n + 1)..Len(doc.included.items) :
                    /\ same(doc.included.items[m], singularize(doc.included.items[m].type))
                    /\ DefinedIn(doc.included.items[m].attributes, key)
             /\ ~\E m \in 1..Len(primary) :
                    records[m] = ref /\ DefinedIn(primary[m].attributes, key))
            => heap[ref].attrs[key] = item.attributes.kv[key]

(***************************************************************************)
(* C19  Included before primary.  After a findAll or findRecord that       *)
(* returned: where a primary resource and an included resource of the      *)
(* document are the same (type, id), the record holds, for every attribute *)
(* the primary resource defines, the primary resource's value; and where   *)
(* a linkage of a primary resource names an included resource, the field   *)
(* refers to the record stored for it, which holds the included            *)
(* resource's attributes.                                                  *)
(***************************************************************************)
IncludedBeforePrimary ==
    ((Resumed("findAll") \/ Resumed("findRecord")) /\ last.result = "returned"
        /\ last.response.doc.included.defined) =>
        LET doc == last.response.doc
            ctor == last.args.ctor
            own == modelRegistry(ctor)
            primary == PrimaryOf(last)
            records == last.records
        IN  /\ \A k \in 1..Len(primary) : \A n \in 1..Len(doc.included.items) :
                  (/\ singularize(doc.included.items[n].type) = own
                   /\ doc.included.items[n].id = primary[k].id) =>
                      \A key \in AttrKeys :
                          (/\ DefinedIn(primary[k].attributes, key)
                           /\ ~\E m \in (k + 1)..Len(primary) :
                                  /\ records[m] = records[k]
                                  /\ DefinedIn(primary[m].attributes, key))
                          => heap[records[k]].attrs[key] = primary[k].attributes.kv[key]
            /\ \A k \in 1..Len(primary) : \A j \in 1..Len(primary[k].relationships) :
                  LET rel == primary[k].relationships[j] IN
                  (/\ Declared(ctor, rel.name)
                   /\ rel.data.kind = (IF rel.name \in DOMAIN hasManyRegistry(ctor)
                                       THEN "many" ELSE "one")
                   /\ AllIncluded(rel.data.ids, TargetType(ctor, rel.name), doc.included)) =>
                      /\ Wired(ctor, records, primary, k, rel, doc.included)
                      /\ \A m \in 1..Len(rel.data.ids) : \A n \in 1..Len(doc.included.items) :
                            (/\ singularize(doc.included.items[n].type)
                                  = TargetType(ctor, rel.name)
                             /\ doc.included.items[n].id = rel.data.ids[m]) =>
                                IncludedMerged(doc, own, primary, records, n,
                                    recordsByType[TargetType(ctor, rel.name)][rel.data.ids[m]])

\* A document arrived whose primary article is also among its included
\* resources with another title, and the record has the primary's title.
IncludedBeforePrimaryWitness ==
    /\ (Resumed("findAll") \/ Resumed("findRecord"))
    /\ last.result = "returned"
    /\ last.response.doc.included = Included(<<article("1", "w", <<>>)>>)
    /\ PrimaryOf(last) = <<article("1", "v", <<>>)>>
    /\ heap[last.records[1]].attrs["title"] = "v"

NullToOne ==
    [][ (/\ last'.op = "findRelated"
         /\ last'.step = "resume"
         /\ last'.response.ok
         /\ last'.args.name \in DOMAIN belongsToRegistry(last'.args.ctor)
         /\ last'.response.doc.data = NullResource) =>
            /\ last'.result = "returned"
            /\ recordsByType' = recordsByType
            /\ heap'[last'.args.ref].rels[last'.args.name].refs = <<>> ]_vars

====
